---- MODULE Spec2Model ----
(***************************************************************************)
(* Message-generation workflow of the Sales Assistant front end            *)
(* (MessageGeneratorPage, messageService, textUtils).                      *)
(*                                                                         *)
(* The page is a React component: its useState cells, its react-hook-form  *)
(* value store and its two react-query mutations are the state; every      *)
(* event handler and every mutation callback is one action.                *)
(***************************************************************************)
EXTENDS Integers, Sequences, FiniteSets, TLC

\* ---------------------------------------------------------------- bounds
\* number of drafts the generation service creates in one run
MaxDrafts == 2
\* number of times the generator page is mounted in one run
MaxInst == 2
\* number of entities in a catalog the list pages look identifiers up in
MaxList == 2

\* ---------------------------------------------------------- JS sentinels
Undef == "undefined"
Null == "null"

\* ------------------------------------------------------------ test data
\* catalog entities carry their identifier under _id, under id, or both;
\* "" stands for a missing field
ClientC1 == [_id |-> "c1", id |-> ""]
ClientC2 == [_id |-> "", id |-> "c2"]
ProductP1 == [_id |-> "p1", id |-> "p1"]
AllClients == {ClientC1, ClientC2}
AllProducts == {ProductP1}
\* lists a catalog fetch can return
ClientLists == {AllClients, {ClientC1}}
ProductLists == {AllProducts}
\* stored messages usable as follow-up targets, and the client of each
PrevMessages == {"pm1", "pm2"}
MessageClient(m) == IF m = "pm1" THEN "c1" ELSE "c2"
Tones == {"professional"}
MessageTypes == {"email", "linkedin"}
Instructions == {"", "short"}
\* the text of the n-th draft the generation service creates: every call
\* returns another text (single-line, characters as elements)
GenContent(n) ==
    IF n % 2 = 1 THEN <<"*", "*", "h", "i", "*", "*">> ELSE <<"y", "o">>
GenSubject(n) == IF n % 2 = 1 THEN "Intro" ELSE "Again"
\* texts the operator types into the review fields
EditedContents == {<<"e", "d">>}
EditedSubjects == {"Edited"}
\* error detail strings of the backend; "" is a failure without detail
Details == {"rate limited", ""}

\* ------------------------------------------------------------ textUtils
\* one-element names of the characters the lexer cannot carry in a string
Backtick == "backtick"
Bullet == "bullet"

\* position of the first occurrence of d in s at or after from, 0 if none
RECURSIVE FindFrom(_, _, _)
FindFrom(s, d, from) ==
    IF from + Len(d) - 1 > Len(s) THEN 0
    ELSE IF SubSeq(s, from, from + Len(d) - 1) = d THEN from
    ELSE FindFrom(s, d, from + 1)

\* s.replace(/d(.*?)d/g, '$1'): leftmost, non-greedy, non-overlapping
RECURSIVE StripPair(_, _)
StripPair(s, d) ==
    IF Len(s) < 2 * Len(d) THEN s
    ELSE IF SubSeq(s, 1, Len(d)) = d /\ FindFrom(s, d, Len(d) + 1) # 0
         THEN LET j == FindFrom(s, d, Len(d) + 1)
              IN SubSeq(s, Len(d) + 1, j - 1)
                   \o StripPair(SubSeq(s, j + Len(d), Len(s)), d)
         ELSE <<Head(s)>> \o StripPair(Tail(s), d)

\* number of leading elements of s that satisfy the character class
RECURSIVE RunLen(_, _)
RunLen(s, class) ==
    IF s = <<>> \/ Head(s) \notin class THEN 0 ELSE 1 + RunLen(Tail(s), class)

Drop(s, n) == SubSeq(s, n + 1, Len(s))
Min(a, b) == IF a < b THEN a ELSE b

\* s.replace(/#{1,6}\s+/g, '')
RECURSIVE StripHeaders(_)
StripHeaders(s) ==
    IF s = <<>> THEN s
    ELSE LET k == Min(RunLen(s, {"#"}), 6)
             w == RunLen(Drop(s, k), {" "})
         IN IF k >= 1 /\ w >= 1 THEN StripHeaders(Drop(s, k + w))
            ELSE <<Head(s)>> \o StripHeaders(Tail(s))

\* s.replace(/^\s*[marks]\s+/gm, repl) on a single-line text
StripLinePrefix(s, marks, repl) ==
    LET lead == RunLen(s, {" "})
        rest == Drop(s, lead)
    IN IF rest # <<>> /\ Head(rest) \in marks /\ RunLen(Tail(rest), {" "}) >= 1
       THEN repl \o Drop(Tail(rest), RunLen(Tail(rest), {" "}))
       ELSE s

Digits == {"0", "1", "2", "3", "4", "5", "6", "7", "8", "9"}

\* s.replace(/^\s*\d+\.\s+/gm, '') on a single-line text
StripNumbered(s) ==
    LET lead == RunLen(s, {" "})
        d == RunLen(Drop(s, lead), Digits)
        rest == Drop(s, lead + d)
    IN IF d >= 1 /\ rest # <<>> /\ Head(rest) = "." /\ RunLen(Tail(rest), {" "}) >= 1
       THEN Drop(Tail(rest), RunLen(Tail(rest), {" "}))
       ELSE s

\* s.replace(/FENCE[\s\S]*?FENCE/g, '') where FENCE is three backticks
RECURSIVE StripFences(_)
StripFences(s) ==
    LET f == <<Backtick, Backtick, Backtick>>
    IN IF Len(s) < 6 THEN s
       ELSE IF SubSeq(s, 1, 3) = f /\ FindFrom(s, f, 4) # 0
            THEN StripFences(Drop(s, FindFrom(s, f, 4) + 2))
            ELSE <<Head(s)>> \o StripFences(Tail(s))

\* s.replace(/B([^B]+)B/g, '$1') where B is one backtick
RECURSIVE StripInlineCode(_)
StripInlineCode(s) ==
    IF Len(s) < 3 THEN s
    ELSE LET j == FindFrom(s, <<Backtick>>, 2)
         IN IF Head(s) = Backtick /\ j > 2
            THEN SubSeq(s, 2, j - 1) \o StripInlineCode(Drop(s, j))
            ELSE <<Head(s)>> \o StripInlineCode(Tail(s))

\* s.replace(/^\s*[-*_]{3,}\s*$/gm, '') on a single-line text
StripRule(s) ==
    LET lead == RunLen(s, {" "})
        k == RunLen(Drop(s, lead), {"-", "*", "_"})
        rest == Drop(s, lead + k)
    IN IF k >= 3 /\ RunLen(rest, {" "}) = Len(rest) THEN <<>> ELSE s

stripMarkdown(text) ==
    IF text = <<>> THEN <<>>
    ELSE LET r1 == StripPair(text, <<"*", "*">>)
             r2 == StripPair(r1, <<"*">>)
             r3 == StripPair(r2, <<"_", "_">>)
             r4 == StripPair(r3, <<"_">>)
             r5 == StripHeaders(r4)
             r6 == StripLinePrefix(r5, {"-", "*", "+"}, <<Bullet, " ">>)
             r7 == StripNumbered(r6)
             r8 == StripFences(r7)
             r9 == StripInlineCode(r8)
             r10 == StripLinePrefix(r9, {">"}, <<>>)
         IN StripRule(r10)

\* ------------------------------------------------- identifier resolution
\* e._id || e.id on a catalog entity (strings, "" is falsy)
ResolveId(e) == IF e._id # "" THEN e._id ELSE e.id
\* m._id || m.id on a message (numbers, 0 stands for a missing field)
MessageId(m) == IF m._id # 0 THEN m._id ELSE m.id
\* variant: a list that is not loaded passes the check
EntityExistsOrUnloaded(catalog, x) ==
    ~catalog.loaded \/ \E e \in catalog.data : ResolveId(e) = x
\* list?.some(e => (e._id || e.id) === x); an unloaded list is undefined
EntityExists(catalog, x) ==
    catalog.loaded /\ \E e \in catalog.data : ResolveId(e) = x

\* identifier values of the list pages: two strings and a number; the number 7
\* is not === to the string "7"
Num7 == "number 7"
IdStrings == {"a", "7"}
LookupKeys == IdStrings \cup {Num7}
\* key.toString()
toString(k) == IF k = Num7 THEN "7" ELSE k
\* entities with one or both identifier fields, equal or not
LookupEntities ==
    {e \in [_id : IdStrings \cup {""}, id : IdStrings \cup {""}] :
        e._id # "" \/ e.id # ""}
\* arrays of at most n entities
ArraysUpTo(n) == UNION {[1..k -> LookupEntities] : k \in 0..n}
\* result of Array.prototype.find when no element passes
NoEntity == [_id |-> "", id |-> ""]
\* list.find(test), given the indices of the elements that pass the test: the
\* first of them
FindFirst(list, hits) ==
    IF hits = {} THEN NoEntity
    ELSE list[CHOOSE i \in hits : \A j \in hits : i <= j]
\* clients?.find(c => c.id === message.client_id)
FilterFind(list, key) ==
    FindFirst(list, {i \in DOMAIN list : list[i].id = key})
\* clients?.find(c => c._id === message.client_id || c.id === message.client_id)
RowFind(list, key) ==
    FindFirst(list, {i \in DOMAIN list : list[i]._id = key \/ list[i].id = key})
\* findClientById / findProductById of the dashboard
findById(list, key) ==
    FindFirst(list, {i \in DOMAIN list :
                        \/ list[i].id = key
                        \/ list[i]._id = key
                        \/ key # "" /\ list[i].id = toString(key)
                        \/ key # "" /\ list[i]._id = toString(key)})
\* variant: resolution gives nothing when both fields are present
ResolveIdFirstSingle(e) == IF e.id # "" /\ e._id # "" THEN "" ELSE ResolveId(e)
\* e.id || e._id, the order the dashboard resolves in
ResolveIdFirst(e) == IF e.id # "" THEN e.id ELSE e._id
\* a fetched array as the catalog the generator checks
AsCatalog(list) == [loaded |-> TRUE, data |-> {list[i] : i \in DOMAIN list}]

\* -------------------------------------------------------------- state
VARIABLES
    page,             \* route shown: "generator", "detail" or "other"
    detailId,         \* message id of the detail route, 0 when none
    inst,             \* number of the mounted MessageGeneratorPage instance
    currentStep,      \* useState(1)
    generatedMessage, \* useState(null)
    error,            \* useState(null)
    formValues,       \* react-hook-form value store (name -> value)
    fieldErrors,      \* formState.errors, as the set of field names
    isSubmitted,      \* formState.isSubmitted
    clients,          \* useQuery('clients')
    products,         \* useQuery('products')
    genCalls,         \* generateMessage calls in flight
    saveCalls,        \* updateMessage calls in flight
    nextId,           \* next identifier the generation service assigns
    draftReq,         \* history: the request whose response is the draft
    replaced,         \* history: identifiers of drafts replaced so far
    lateGen,          \* history: step shown when a generation response of a
                      \* discarded instance last arrived, 0 if none did
    lastFailure,      \* history: the failed call whose error the page shows,
                      \* with the detail string of its response ("" when it
                      \* carried none)
    lookup,           \* the list pages: the catalog and the message identifier
                      \* a row is rendered for, with the entity each lookup found
    followUp,         \* follow_up and previous_message parameters of the
                      \* generator route's URL
    token,            \* localStorage item 'token', "" when there is none
    user,             \* AuthProvider useState(null)
    isAuthenticated,  \* AuthProvider useState(false)
    isLoading,        \* AuthProvider useState(true)
    authError,        \* AuthProvider error, useState(null)
    authCalls,        \* authService calls in flight, with the function awaiting
    logins            \* number of login() calls made so far

vars == <<page, detailId, inst, currentStep, generatedMessage, error,
          formValues, fieldErrors, isSubmitted, clients, products,
          genCalls, saveCalls, nextId, draftReq, replaced, lateGen, lastFailure,
          lookup, followUp, token, user, isAuthenticated, isLoading, authError,
          authCalls, logins>>

compVars == <<currentStep, generatedMessage, error, formValues, fieldErrors,
              isSubmitted, draftReq, replaced>>
routeVars == <<page, detailId, inst, followUp>>
authVars == <<token, user, isAuthenticated, isLoading, authError, authCalls, logins>>
queryVars == <<clients, products>>

NoDraft == [_id |-> 0, id |-> 0, message_type |-> Null, subject |-> "",
            content |-> <<>>]
NoRequest == [client_id |-> Undef, product_id |-> Undef,
              message_type |-> Undef, tone |-> Undef,
              custom_instructions |-> Undef, is_follow_up |-> FALSE,
              previous_message_id |-> Undef]
NotLoaded == [loaded |-> FALSE, data |-> {}]
EmptyForm == [n \in {} |-> ""]

NoFailure == [call |-> "none", detail |-> ""]
\* a URL without follow_up and previous_message
NoFollowUp == [follow_up |-> Null, previous_message |-> Null]
\* the session of a signed-in operator with no authService call in flight
SignedIn ==
    /\ token = "t0"
    /\ user = "u0"
    /\ isAuthenticated = TRUE
    /\ isLoading = FALSE
    /\ authError = Null
    /\ authCalls = {}
    /\ logins = 0
\* a list page before any lookup was made
Lookup(list, key) ==
    [list |-> list, key |-> key, done |-> {}, filterHit |-> NoEntity,
     rowHit |-> NoEntity, dashHit |-> NoEntity, exists |-> FALSE,
     keys |-> <<>>, keysRev |-> <<>>, links |-> <<>>]
NoLookup == Lookup(<<>>, "")

ErrInvalidSelection == "Invalid client or product selection. Please select valid options."
ErrNotFound == "Selected client or product not found. Please go back and select again."
ErrGenerateFallback == "Failed to generate message. Please try again."
ErrSaveFallback == "Failed to save message. Please try again."

\* ---------------------------------------------------- react-hook-form
Has(fv, n) == n \in DOMAIN fv
\* watch(n) / data[n] of a text-valued field
Get(fv, n) == IF Has(fv, n) THEN fv[n] ELSE Undef
\* truthiness of a checkbox field
IsTrue(fv, n) == Has(fv, n) /\ fv[n] = TRUE
SetValue(fv, n, v) == (n :> v) @@ fv

\* the inputs the page renders, and so registers, at a step
MountedFields(fv, step, draft) ==
    IF step = 1 THEN {"client_id", "product_id"}
    ELSE IF step = 2
    THEN {"client_id", "product_id", "message_type", "tone", "is_follow_up",
          "custom_instructions"}
         \cup (IF IsTrue(fv, "is_follow_up") THEN {"previous_message_id"} ELSE {})
    ELSE IF draft = NoDraft THEN {}
    ELSE IF draft.message_type = "email" THEN {"subject", "content"}
    ELSE IF draft.message_type = "linkedin" THEN {"content"}
    ELSE {}

\* value the DOM element shows when it is mounted without a stored value
DomDefault(n, draft) ==
    IF n = "is_follow_up" THEN FALSE
    ELSE IF n = "message_type" THEN Null
    ELSE IF n = "subject" THEN draft.subject
    ELSE IF n = "content" THEN stripMarkdown(draft.content)
    ELSE ""

\* variant: the value of a field is dropped when its input is not rendered
RenderUnregister(fv, step, draft) ==
    LET m == MountedFields(fv, step, draft)
    IN [n \in m |-> IF Has(fv, n) THEN fv[n] ELSE DomDefault(n, draft)]
\* register(): a field mounted with a stored value shows the stored value,
\* a field mounted without one stores what the element shows
Render(fv, step, draft) ==
    LET m == MountedFields(fv, step, draft)
    IN [n \in DOMAIN fv \cup m |->
          IF Has(fv, n) THEN fv[n] ELSE DomDefault(n, draft)]

\* fields registered with a required rule
RequiredFields ==
    {"client_id", "product_id", "message_type", "tone", "previous_message_id"}
IsEmptyValue(v) == v \in {"", Null, Undef}
\* handleSubmit validation: the mounted fields whose required rule fails
Invalid(fv, step, draft) ==
    {n \in MountedFields(fv, step, draft) \cap RequiredFields :
        IsEmptyValue(Get(fv, n))}

\* onChange of a mounted input, with re-validation once the form was submitted
Changed(n, v) ==
    /\ formValues' = Render(SetValue(formValues, n, v), currentStep, generatedMessage)
    /\ fieldErrors' =
         IF ~isSubmitted THEN fieldErrors
         ELSE IF n \in RequiredFields /\ IsEmptyValue(v) THEN fieldErrors \cup {n}
         ELSE fieldErrors \ {n}
    /\ UNCHANGED <<currentStep, generatedMessage, error, isSubmitted, draftReq,
                   replaced, routeVars, queryVars, genCalls, saveCalls, nextId,
                   lateGen, lastFailure>>
    /\ UNCHANGED <<lookup, authVars>>

\* ------------------------------------------------------ mutation state
generateIsLoading == \E c \in genCalls : c.inst = inst
saveIsLoading == \E c \in saveCalls : c.inst = inst

\* -------------------------------------------------- request construction
SubmitRequest(data) ==
    [client_id |-> Get(data, "client_id"),
     product_id |-> Get(data, "product_id"),
     message_type |-> Get(data, "message_type"),
     tone |-> Get(data, "tone"),
     custom_instructions |-> Get(data, "custom_instructions"),
     is_follow_up |-> IsTrue(data, "is_follow_up"),
     previous_message_id |->
        IF IsTrue(data, "is_follow_up") THEN Get(data, "previous_message_id")
        ELSE Null]

RegenerateRequest(fv) ==
    [client_id |-> Get(fv, "client_id"),
     product_id |-> Get(fv, "product_id"),
     message_type |-> Get(fv, "message_type"),
     tone |-> Get(fv, "tone"),
     custom_instructions |-> Get(fv, "custom_instructions"),
     is_follow_up |-> IsTrue(fv, "is_follow_up"),
     previous_message_id |-> Get(fv, "previous_message_id")]

\* variant: only the id field is read
SaveTargetIdOnly(draft) == draft.id
SaveTarget(draft) == MessageId(draft)
\* variant: the generated text is sent instead of the form data
SavePayloadGenerated(data) ==
    [content |-> stripMarkdown(generatedMessage.content),
     subject |-> generatedMessage.subject]
SavePayload(data) ==
    [content |-> IF Has(data, "content") THEN data["content"] ELSE <<Undef>>,
     subject |-> Get(data, "subject")]

\* ------------------------------------------------------------- routing
UrlClientIds == {"", "c2"}
UrlProductIds == {"", "p1"}

\* values the mount effect writes from the client_id / product_id URL parameters
UrlDefaults(fv, urlClient, urlProduct) ==
    LET f1 == IF urlClient # "" THEN SetValue(fv, "client_id", urlClient) ELSE fv
    IN IF urlProduct # "" THEN SetValue(f1, "product_id", urlProduct) ELSE f1

\* form values of a freshly mounted page: step 1 is rendered, then the effect
\* applies the URL parameters
MountedForm(urlClient, urlProduct) ==
    UrlDefaults(Render(EmptyForm, 1, NoDraft), urlClient, urlProduct)

\* the first MessageGeneratorPage instance has just been mounted
Init ==
    /\ page = "generator"
    /\ detailId = 0
    /\ inst = 1
    /\ currentStep = 1
    /\ generatedMessage = NoDraft
    /\ error = Null
    /\ \E uc \in UrlClientIds, up \in UrlProductIds :
          formValues = MountedForm(uc, up)
    /\ fieldErrors = {}
    /\ isSubmitted = FALSE
    /\ clients = NotLoaded
    /\ products = NotLoaded
    /\ genCalls = {}
    /\ saveCalls = {}
    /\ nextId = 1
    /\ draftReq = NoRequest
    /\ replaced = {}
    /\ lateGen = 0
    /\ lastFailure = NoFailure
    /\ lookup = NoLookup
    /\ followUp = NoFollowUp
    /\ SignedIn

\* the router mounts a new MessageGeneratorPage
OpenGenerator(urlClient, urlProduct) ==
    /\ page # "generator"
    /\ inst < MaxInst
    /\ page' = "generator"
    /\ inst' = inst + 1
    /\ detailId' = 0
    /\ followUp' = NoFollowUp
    /\ currentStep' = 1
    /\ generatedMessage' = NoDraft
    /\ error' = Null
    /\ formValues' = MountedForm(urlClient, urlProduct)
    /\ fieldErrors' = {}
    /\ isSubmitted' = FALSE
    /\ draftReq' = NoRequest
    /\ replaced' = {}
    /\ lastFailure' = NoFailure
    /\ UNCHANGED <<queryVars, genCalls, saveCalls, nextId, lateGen>>
    /\ UNCHANGED <<lookup, authVars>>

\* the state of an unmounted instance: nothing of it is rendered any more
\* MessageDetailPage: the Create Follow-up link,
\* /messages/generate?follow_up=true&previous_message=<message._id || message.id>;
\* the mounted page reads the client_id and product_id parameters only
CreateFollowUp ==
    /\ page = "detail"
    /\ detailId # 0
    /\ inst < MaxInst
    /\ page' = "generator"
    /\ inst' = inst + 1
    /\ followUp' = [follow_up |-> "true", previous_message |-> ToString(detailId)]
    /\ detailId' = 0
    /\ currentStep' = 1
    /\ generatedMessage' = NoDraft
    /\ error' = Null
    /\ formValues' = MountedForm("", "")
    /\ fieldErrors' = {}
    /\ isSubmitted' = FALSE
    /\ draftReq' = NoRequest
    /\ replaced' = {}
    /\ lastFailure' = NoFailure
    /\ UNCHANGED <<queryVars, genCalls, saveCalls, nextId, lateGen>>
    /\ UNCHANGED <<lookup, authVars>>

Unmounted ==
    /\ currentStep' = 1
    /\ generatedMessage' = NoDraft
    /\ error' = Null
    /\ formValues' = EmptyForm
    /\ fieldErrors' = {}
    /\ isSubmitted' = FALSE
    /\ draftReq' = NoRequest
    /\ replaced' = {}
    /\ lastFailure' = NoFailure

\* the operator navigates to another screen; calls in flight are not cancelled
LeaveGenerator ==
    /\ page = "generator"
    /\ page' = "other"
    /\ detailId' = 0
    /\ followUp' = NoFollowUp
    /\ Unmounted
    /\ UNCHANGED <<inst, queryVars, genCalls, saveCalls, nextId, lateGen>>
    /\ UNCHANGED <<lookup, authVars>>

\* ------------------------------------------------------------ catalogs
ClientsFetched(list) ==
    /\ clients' = [loaded |-> TRUE, data |-> list]
    /\ clients' # clients
    /\ UNCHANGED <<compVars, routeVars, products, genCalls, saveCalls, nextId, lateGen, lastFailure>>
    /\ UNCHANGED <<lookup, authVars>>

ProductsFetched(list) ==
    /\ products' = [loaded |-> TRUE, data |-> list]
    /\ products' # products
    /\ UNCHANGED <<compVars, routeVars, clients, genCalls, saveCalls, nextId, lateGen, lastFailure>>
    /\ UNCHANGED <<lookup, authVars>>

\* ------------------------------------------------------- operator input
SelectClient(v) ==
    /\ page = "generator" /\ currentStep = 1
    /\ clients.loaded
    /\ v \in {""} \cup {ResolveId(c) : c \in clients.data}
    /\ v # Get(formValues, "client_id")
    /\ Changed("client_id", v)

SelectProduct(v) ==
    /\ page = "generator" /\ currentStep = 1
    /\ products.loaded
    /\ v \in {""} \cup {ResolveId(p) : p \in products.data}
    /\ v # Get(formValues, "product_id")
    /\ Changed("product_id", v)

SetMessageType(v) ==
    /\ page = "generator" /\ currentStep = 2
    /\ v \in MessageTypes
    /\ v # Get(formValues, "message_type")
    /\ Changed("message_type", v)

SetTone(v) ==
    /\ page = "generator" /\ currentStep = 2
    /\ v \in {""} \cup Tones
    /\ v # Get(formValues, "tone")
    /\ Changed("tone", v)

SetInstructions(v) ==
    /\ page = "generator" /\ currentStep = 2
    /\ v \in Instructions
    /\ v # Get(formValues, "custom_instructions")
    /\ Changed("custom_instructions", v)

ToggleFollowUp ==
    /\ page = "generator" /\ currentStep = 2
    /\ Changed("is_follow_up", ~IsTrue(formValues, "is_follow_up"))

\* the options are the messages the previousMessages query returns for the
\* selected client
SelectPrevious(v) ==
    /\ page = "generator" /\ currentStep = 2
    /\ IsTrue(formValues, "is_follow_up")
    /\ v \in {""} \cup {m \in PrevMessages :
                          MessageClient(m) = Get(formValues, "client_id")}
    /\ v # Get(formValues, "previous_message_id")
    /\ Changed("previous_message_id", v)

EditSubject(v) ==
    /\ page = "generator" /\ currentStep = 3
    /\ "subject" \in MountedFields(formValues, currentStep, generatedMessage)
    /\ v \in EditedSubjects
    /\ v # Get(formValues, "subject")
    /\ Changed("subject", v)

EditContent(v) ==
    /\ page = "generator" /\ currentStep = 3
    /\ "content" \in MountedFields(formValues, currentStep, generatedMessage)
    /\ v \in EditedContents
    /\ v # formValues["content"]
    /\ Changed("content", v)

\* Alert onClose
CloseAlert ==
    /\ page = "generator"
    /\ error # Null
    /\ error' = Null
    /\ lastFailure' = NoFailure
    /\ UNCHANGED <<currentStep, generatedMessage, formValues, fieldErrors,
                   isSubmitted, draftReq, replaced, routeVars, queryVars,
                   genCalls, saveCalls, nextId, lateGen>>
    /\ UNCHANGED <<lookup, authVars>>

\* ------------------------------------------------------------ handlers
\* variant: the submit button is disabled only during a save
SubmitDisabledBySaveOnly == currentStep = 3 /\ saveIsLoading
\* disabled condition of the submit button
SubmitDisabled ==
    \/ currentStep = 2 /\ generateIsLoading
    \/ currentStep = 3 /\ saveIsLoading

\* disabled condition of both Regenerate buttons
RegenerateDisabled == generateIsLoading

\* variant: Back restarts the wizard
BackStepToFirst(step) == 1
\* step handleBack moves to
BackStep(step) == IF step > 1 THEN step - 1 ELSE step

\* variant: a callback acts on whichever instance is mounted
IsLiveAny(c) == page = "generator"
\* a mutation callback's setState calls act on the instance that issued the
\* call, and only while that instance is mounted
IsLive(c) == page = "generator" /\ c.inst = inst

GenerateCall(kind, req) == [inst |-> inst, kind |-> kind, req |-> req]
SaveCall(draft, data) ==
    [inst |-> inst, target |-> SaveTarget(draft), payload |-> SavePayload(data)]

\* onSubmit(data) after validation passed
onSubmit(data) ==
    IF currentStep = 1
    THEN /\ currentStep' = 2
         /\ formValues' = Render(formValues, 2, generatedMessage)
         /\ UNCHANGED <<error, genCalls, saveCalls>>
    ELSE IF currentStep = 2
    THEN /\ UNCHANGED <<currentStep, formValues, saveCalls>>
         /\ IF IsEmptyValue(Get(data, "client_id")) \/ IsEmptyValue(Get(data, "product_id"))
            THEN error' = ErrInvalidSelection /\ UNCHANGED genCalls
            ELSE IF ~EntityExists(clients, Get(data, "client_id"))
                    \/ ~EntityExists(products, Get(data, "product_id"))
            THEN error' = ErrNotFound /\ UNCHANGED genCalls
            ELSE /\ genCalls' = genCalls \cup {GenerateCall("generate", SubmitRequest(data))}
                 /\ UNCHANGED error
    ELSE /\ saveCalls' = saveCalls \cup {SaveCall(generatedMessage, data)}
         /\ UNCHANGED <<currentStep, formValues, error, genCalls>>

\* handleSubmit(onSubmit): the form's submit button
Submit ==
    /\ page = "generator"
    /\ ~SubmitDisabled
    /\ isSubmitted' = TRUE
    /\ LET bad == Invalid(formValues, currentStep, generatedMessage)
       IN IF bad # {}
          THEN /\ fieldErrors' = bad
               /\ UNCHANGED <<currentStep, formValues, error, genCalls, saveCalls>>
          ELSE /\ fieldErrors' = {}
               /\ onSubmit(formValues)
    /\ lastFailure' = IF error' = error THEN lastFailure ELSE NoFailure
    /\ UNCHANGED <<generatedMessage, draftReq, replaced, routeVars, queryVars,
                   nextId, lateGen>>
    /\ UNCHANGED <<lookup, authVars>>

\* the Back button, rendered while currentStep > 1
handleBack ==
    /\ page = "generator"
    /\ currentStep > 1
    /\ currentStep' = BackStep(currentStep)
    /\ formValues' = Render(formValues, currentStep', generatedMessage)
    /\ UNCHANGED <<generatedMessage, error, fieldErrors, isSubmitted, draftReq,
                   replaced, routeVars, queryVars, genCalls, saveCalls, nextId,
                   lateGen, lastFailure>>
    /\ UNCHANGED <<lookup, authVars>>

\* the Regenerate buttons, rendered at step 3
handleRegenerate ==
    /\ page = "generator"
    /\ currentStep = 3
    /\ ~RegenerateDisabled
    /\ IF ~EntityExists(clients, Get(formValues, "client_id"))
          \/ ~EntityExists(products, Get(formValues, "product_id"))
       THEN error' = ErrNotFound /\ UNCHANGED genCalls
       ELSE /\ genCalls' = genCalls \cup
                  {GenerateCall("regenerate", RegenerateRequest(formValues))}
            /\ UNCHANGED error
    /\ lastFailure' = IF error' = error THEN lastFailure ELSE NoFailure
    /\ UNCHANGED <<currentStep, generatedMessage, formValues, fieldErrors,
                   isSubmitted, draftReq, replaced, routeVars, queryVars,
                   saveCalls, nextId, lateGen>>
    /\ UNCHANGED <<lookup, authVars>>

\* ---------------------------------------------------- service responses
IdShapes == {"_id", "id"}

\* the draft the generation service returns for a request
Draft(n, shape, req) ==
    [_id |-> IF shape \in {"_id", "both"} THEN n ELSE 0,
     id |-> IF shape \in {"id", "both"} THEN n ELSE 0,
     message_type |-> req.message_type,
     subject |-> IF req.message_type = "email" THEN GenSubject(n) ELSE "",
     content |-> GenContent(n)]

\* variant: the detail of the response is not read
ErrorTextGeneric(detail, fallback) == fallback
\* error.response?.data?.detail || fallback
ErrorText(detail, fallback) == IF detail # "" THEN detail ELSE fallback

\* variant: the response moves the page to step 3 without storing the draft
GenerateSuccessDropsDraft(c, shape) ==
    /\ c \in genCalls
    /\ nextId <= MaxDrafts
    /\ genCalls' = genCalls \ {c}
    /\ nextId' = nextId + 1
    /\ IF IsLive(c)
       THEN /\ currentStep' = 3
            /\ formValues' = Render(formValues, 3, generatedMessage)
            /\ UNCHANGED <<generatedMessage, draftReq, replaced, lateGen>>
       ELSE /\ UNCHANGED <<generatedMessage, currentStep, formValues, draftReq,
                           replaced>>
            /\ lateGen' = IF page = "generator" THEN currentStep ELSE lateGen
    /\ UNCHANGED <<error, fieldErrors, isSubmitted, routeVars, queryVars, saveCalls,
                   lastFailure>>
    /\ UNCHANGED <<lookup, authVars>>
\* generateMessageMutation.onSuccess
GenerateSuccess(c, shape) ==
    /\ c \in genCalls
    /\ nextId <= MaxDrafts
    /\ genCalls' = genCalls \ {c}
    /\ nextId' = nextId + 1
    /\ LET data == Draft(nextId, shape, c.req)
       IN IF IsLive(c)
          THEN /\ generatedMessage' = data
               /\ currentStep' = 3
               /\ formValues' = Render(formValues, 3, data)
               /\ draftReq' = c.req
               /\ replaced' = IF generatedMessage = NoDraft THEN replaced
                              ELSE replaced \cup {MessageId(generatedMessage)}
               /\ UNCHANGED lateGen
          ELSE /\ UNCHANGED <<generatedMessage, currentStep, formValues, draftReq,
                              replaced>>
               /\ lateGen' = IF page = "generator" THEN currentStep ELSE lateGen
    /\ UNCHANGED <<error, fieldErrors, isSubmitted, routeVars, queryVars, saveCalls,
                   lastFailure>>
    /\ UNCHANGED <<lookup, authVars>>

\* variant: every failed generation call returns the page to step 2 and
\* drops the working draft
GenerateErrorToStep2(c, detail) ==
    /\ c \in genCalls
    /\ genCalls' = genCalls \ {c}
    /\ error' = IF IsLive(c) THEN ErrorText(detail, ErrGenerateFallback) ELSE error
    /\ lastFailure' = IF IsLive(c) THEN [call |-> c.kind, detail |-> detail]
                      ELSE lastFailure
    /\ currentStep' = IF IsLive(c) THEN 2 ELSE currentStep
    /\ generatedMessage' = IF IsLive(c) THEN NoDraft ELSE generatedMessage
    /\ UNCHANGED <<formValues, fieldErrors, isSubmitted, draftReq, replaced,
                   routeVars, queryVars, saveCalls, nextId, lateGen>>
    /\ UNCHANGED <<lookup, authVars>>

\* variant: a failed generation call is sent again by itself
GenerateErrorRetries(c, detail) ==
    /\ c \in genCalls
    /\ genCalls' = (genCalls \ {c}) \cup {[c EXCEPT !.kind = "retry"]}
    /\ error' = IF IsLive(c) THEN ErrorText(detail, ErrGenerateFallback) ELSE error
    /\ lastFailure' = IF IsLive(c) THEN [call |-> c.kind, detail |-> detail]
                      ELSE lastFailure
    /\ UNCHANGED <<currentStep, generatedMessage, formValues, fieldErrors,
                   isSubmitted, draftReq, replaced, routeVars, queryVars,
                   saveCalls, nextId, lateGen>>
    /\ UNCHANGED <<lookup, authVars>>

\* generateMessageMutation.onError
GenerateError(c, detail) ==
    /\ c \in genCalls
    /\ genCalls' = genCalls \ {c}
    /\ error' = IF IsLive(c) THEN ErrorText(detail, ErrGenerateFallback) ELSE error
    /\ lastFailure' = IF IsLive(c) THEN [call |-> c.kind, detail |-> detail]
                      ELSE lastFailure
    /\ UNCHANGED <<currentStep, generatedMessage, formValues, fieldErrors,
                   isSubmitted, draftReq, replaced, routeVars, queryVars,
                   saveCalls, nextId, lateGen>>
    /\ UNCHANGED <<lookup, authVars>>

\* saveMessageMutation.onSuccess: navigate to the saved message
SaveSuccess(c) ==
    /\ c \in saveCalls
    /\ saveCalls' = saveCalls \ {c}
    /\ page' = "detail"
    /\ detailId' = c.target
    /\ followUp' = NoFollowUp
    /\ Unmounted
    /\ UNCHANGED <<inst, queryVars, genCalls, nextId, lateGen>>
    /\ UNCHANGED <<lookup, authVars>>

\* variant: a failed save puts the generated text back into the review fields
SaveErrorResetsFields(c, detail) ==
    /\ c \in saveCalls
    /\ saveCalls' = saveCalls \ {c}
    /\ error' = IF IsLive(c) THEN ErrorText(detail, ErrSaveFallback) ELSE error
    /\ lastFailure' = IF IsLive(c) THEN [call |-> "save", detail |-> detail]
                      ELSE lastFailure
    /\ formValues' =
          IF IsLive(c) /\ Has(formValues, "content")
          THEN SetValue(formValues, "content", stripMarkdown(generatedMessage.content))
          ELSE formValues
    /\ UNCHANGED <<currentStep, generatedMessage, fieldErrors, isSubmitted,
                   draftReq, replaced, routeVars, queryVars, genCalls, nextId,
                   lateGen>>
    /\ UNCHANGED <<lookup, authVars>>

\* saveMessageMutation.onError
SaveError(c, detail) ==
    /\ c \in saveCalls
    /\ saveCalls' = saveCalls \ {c}
    /\ error' = IF IsLive(c) THEN ErrorText(detail, ErrSaveFallback) ELSE error
    /\ lastFailure' = IF IsLive(c) THEN [call |-> "save", detail |-> detail]
                      ELSE lastFailure
    /\ UNCHANGED <<currentStep, generatedMessage, formValues, fieldErrors,
                   isSubmitted, draftReq, replaced, routeVars, queryVars,
                   genCalls, nextId, lateGen>>
    /\ UNCHANGED <<lookup, authVars>>

\* ------------------------------------------------------ specifications
\* Review flow: one page instance, both message types, the operator edits the
\* review fields; the follow-up options keep their defaults.
Next ==
    \/ LeaveGenerator
    \/ \E l \in {AllClients} : ClientsFetched(l)
    \/ \E l \in ProductLists : ProductsFetched(l)
    \/ \E v \in {"c1"} : SelectClient(v)
    \/ \E v \in {"p1"} : SelectProduct(v)
    \/ \E v \in MessageTypes : SetMessageType(v)
    \/ \E v \in Tones : SetTone(v)
    \/ \E v \in EditedSubjects : EditSubject(v)
    \/ \E v \in EditedContents : EditContent(v)
    \/ CloseAlert
    \/ Submit
    \/ handleBack
    \/ handleRegenerate
    \/ \E c \in genCalls, sh \in IdShapes : GenerateSuccess(c, sh)
    \/ \E c \in genCalls, d \in Details : GenerateError(c, d)
    \/ \E c \in saveCalls : SaveSuccess(c)
    \/ \E c \in saveCalls, d \in Details : SaveError(c, d)

Spec == Init /\ [][Next]_vars

\* Request construction: one page instance, the operator changes every option
\* of step 2 and the client; the review fields are left as generated.
NextRequest ==
    \/ LeaveGenerator
    \/ \E l \in ClientLists : ClientsFetched(l)
    \/ \E l \in ProductLists : ProductsFetched(l)
    \/ \E v \in {"c1", "c2"} : SelectClient(v)
    \/ \E v \in {"p1"} : SelectProduct(v)
    \/ \E v \in {"email"} : SetMessageType(v)
    \/ \E v \in Tones : SetTone(v)
    \/ ToggleFollowUp
    \/ \E v \in {""} \cup PrevMessages : SelectPrevious(v)
    \/ CloseAlert
    \/ Submit
    \/ handleBack
    \/ handleRegenerate
    \/ \E c \in genCalls, sh \in {"_id"} : GenerateSuccess(c, sh)
    \/ \E c \in genCalls, d \in {"rate limited"} : GenerateError(c, d)
    \/ \E c \in saveCalls : SaveSuccess(c)
    \/ \E c \in saveCalls, d \in {"rate limited"} : SaveError(c, d)

SpecRequest == Init /\ [][NextRequest]_vars

\* Page instances: the operator leaves the page and opens it again while
\* calls are in flight; the review fields are left as generated.
NextInstances ==
    \/ \E uc \in {""}, up \in {""} : OpenGenerator(uc, up)
    \/ CreateFollowUp
    \/ LeaveGenerator
    \/ \E l \in {AllClients} : ClientsFetched(l)
    \/ \E l \in ProductLists : ProductsFetched(l)
    \/ \E v \in {"c1"} : SelectClient(v)
    \/ \E v \in {"p1"} : SelectProduct(v)
    \/ \E v \in {"email"} : SetMessageType(v)
    \/ \E v \in Tones : SetTone(v)
    \/ \E v \in {"short"} : SetInstructions(v)
    \/ CloseAlert
    \/ Submit
    \/ handleBack
    \/ handleRegenerate
    \/ \E c \in genCalls, sh \in {"_id"} : GenerateSuccess(c, sh)
    \/ \E c \in genCalls, d \in {"rate limited"} : GenerateError(c, d)
    \/ \E c \in saveCalls : SaveSuccess(c)
    \/ \E c \in saveCalls, d \in {"rate limited"} : SaveError(c, d)

SpecInstances == Init /\ [][NextInstances]_vars

\* Identifier lookups: a list page holds a fetched catalog and renders the row
\* of a message with a client identifier; every lookup of the pages is applied
\* to the same catalog and identifier.
InitIdentity ==
    /\ page = "messages"
    /\ detailId = 0
    /\ inst = 0
    /\ currentStep = 1
    /\ generatedMessage = NoDraft
    /\ error = Null
    /\ formValues = EmptyForm
    /\ fieldErrors = {}
    /\ isSubmitted = FALSE
    /\ clients = NotLoaded
    /\ products = NotLoaded
    /\ genCalls = {}
    /\ saveCalls = {}
    /\ nextId = 1
    /\ draftReq = NoRequest
    /\ replaced = {}
    /\ lateGen = 0
    /\ lastFailure = NoFailure
    /\ followUp = NoFollowUp
    /\ SignedIn
    /\ \E list \in ArraysUpTo(MaxList), key \in LookupKeys :
          lookup = Lookup(list, key)

workflowVars == <<page, detailId, inst, currentStep, generatedMessage, error,
                  formValues, fieldErrors, isSubmitted, clients, products,
                  genCalls, saveCalls, nextId, draftReq, replaced, lateGen,
                  lastFailure, followUp>>

\* one lookup of a page is evaluated and its result kept
Evaluate(name, field, value) ==
    /\ name \notin lookup.done
    /\ lookup' = [lookup EXCEPT ![field] = value, !.done = @ \cup {name}]
    /\ UNCHANGED <<workflowVars, authVars>>

\* MessagesPage: the lookup of the search filter
FilterLookup == Evaluate("filter", "filterHit", FilterFind(lookup.list, lookup.key))
\* MessagesPage: the lookup of the table row
RowLookup == Evaluate("row", "rowHit", RowFind(lookup.list, lookup.key))
\* DashboardPage: the lookup of the recent-messages row
DashboardLookup == Evaluate("dash", "dashHit", findById(lookup.list, lookup.key))
\* MessageGeneratorPage: the existence check before a generation
ExistenceCheck ==
    Evaluate("exists", "exists", EntityExists(AsCatalog(lookup.list), lookup.key))
\* MessageGeneratorPage: the option values, entity._id || entity.id
OptionKeys ==
    Evaluate("keys", "keys", [i \in DOMAIN lookup.list |-> ResolveId(lookup.list[i])])
\* DashboardPage: the row keys, entity.id || entity._id
DashboardKeys ==
    Evaluate("keysRev", "keysRev",
             [i \in DOMAIN lookup.list |-> ResolveIdFirst(lookup.list[i])])

\* ClientDetailPage: the client_id parameter of the Generate Message link, the
\* template literal of client.id; a missing field prints as "undefined"
GenerateMessageLink(client) == IF client.id = "" THEN Undef ELSE client.id
LinkKeys ==
    Evaluate("links", "links",
             [i \in DOMAIN lookup.list |-> GenerateMessageLink(lookup.list[i])])

NextIdentity ==
    \/ LinkKeys
    \/ FilterLookup
    \/ RowLookup
    \/ DashboardLookup
    \/ ExistenceCheck
    \/ OptionKeys
    \/ DashboardKeys

SpecIdentity == InitIdentity /\ [][NextIdentity]_vars

\* ------------------------------------------------------- AuthProvider
\* The provider is mounted once; the login page is a public route, so login()
\* can be called in every state, and logout() is the Navbar button, which
\* ProtectedRoute renders only while isLoading is false and isAuthenticated
\* is true.
MaxLogins == 2
StoredTokens == {"", "t0"}
\* access token of the n-th login, and the user the server returns
AccessToken(n) == IF n = 1 THEN "t1" ELSE IF n = 2 THEN "t2" ELSE "t3"
UserData == "u0"
AuthCall(fn, step, n) == [fn |-> fn, step |-> step, n |-> n]
appVars == <<page, detailId, inst, currentStep, generatedMessage, error,
             formValues, fieldErrors, isSubmitted, clients, products,
             genCalls, saveCalls, nextId, draftReq, replaced, lateGen,
             lastFailure, followUp, lookup>>

\* the provider has been mounted and the effect has started checkAuthStatus:
\* with a stored token getCurrentUser is in flight, without one the function
\* has run to its end
InitAuth ==
    /\ page = "other"
    /\ detailId = 0
    /\ inst = 0
    /\ currentStep = 1
    /\ generatedMessage = NoDraft
    /\ error = Null
    /\ formValues = EmptyForm
    /\ fieldErrors = {}
    /\ isSubmitted = FALSE
    /\ clients = NotLoaded
    /\ products = NotLoaded
    /\ genCalls = {}
    /\ saveCalls = {}
    /\ nextId = 1
    /\ draftReq = NoRequest
    /\ replaced = {}
    /\ lateGen = 0
    /\ lastFailure = NoFailure
    /\ followUp = NoFollowUp
    /\ lookup = NoLookup
    /\ token \in StoredTokens
    /\ user = Null
    /\ isAuthenticated = FALSE
    /\ authError = Null
    /\ logins = 0
    /\ isLoading = (token # "")
    /\ authCalls = IF token # "" THEN {AuthCall("checkAuthStatus", "getCurrentUser", 0)}
                   ELSE {}

\* checkAuthStatus: getCurrentUser resolved
CheckResolved(c) ==
    /\ c \in authCalls /\ c.fn = "checkAuthStatus"
    /\ authCalls' = authCalls \ {c}
    /\ user' = UserData
    /\ isAuthenticated' = TRUE
    /\ isLoading' = FALSE
    /\ UNCHANGED <<token, authError, logins, appVars>>

\* checkAuthStatus: getCurrentUser rejected
CheckRejected(c) ==
    /\ c \in authCalls /\ c.fn = "checkAuthStatus"
    /\ authCalls' = authCalls \ {c}
    /\ token' = ""
    /\ user' = Null
    /\ isAuthenticated' = FALSE
    /\ isLoading' = FALSE
    /\ UNCHANGED <<authError, logins, appVars>>

\* login(email, password) up to its first await
login ==
    /\ logins < MaxLogins
    /\ \A c \in authCalls : c.fn # "login"
    /\ logins' = logins + 1
    /\ isLoading' = TRUE
    /\ authError' = Null
    /\ authCalls' = authCalls \cup {AuthCall("login", "login", logins + 1)}
    /\ UNCHANGED <<token, user, isAuthenticated, appVars>>

\* login: authService.login resolved; the token is stored and getCurrentUser
\* is called
LoginTokenStored(c) ==
    /\ c \in authCalls /\ c.fn = "login" /\ c.step = "login"
    /\ token' = AccessToken(c.n)
    /\ authCalls' = (authCalls \ {c}) \cup {AuthCall("login", "getCurrentUser", c.n)}
    /\ UNCHANGED <<user, isAuthenticated, isLoading, authError, logins, appVars>>

\* login: getCurrentUser resolved
LoginResolved(c) ==
    /\ c \in authCalls /\ c.fn = "login" /\ c.step = "getCurrentUser"
    /\ authCalls' = authCalls \ {c}
    /\ user' = UserData
    /\ isAuthenticated' = TRUE
    /\ isLoading' = FALSE
    /\ UNCHANGED <<token, authError, logins, appVars>>

\* login: either call rejected
LoginRejected(c, detail) ==
    /\ c \in authCalls /\ c.fn = "login"
    /\ authCalls' = authCalls \ {c}
    /\ authError' = ErrorText(detail, "Login failed")
    /\ isLoading' = FALSE
    /\ UNCHANGED <<token, user, isAuthenticated, logins, appVars>>

\* register(userData) up to its await; the form of RegisterPage is disabled
\* while its call is in flight
register ==
    /\ \A c \in authCalls : c.fn # "register"
    /\ isLoading' = TRUE
    /\ authError' = Null
    /\ authCalls' = authCalls \cup {AuthCall("register", "register", 0)}
    /\ UNCHANGED <<token, user, isAuthenticated, logins, appVars>>

\* register: authService.register resolved
RegisterResolved(c) ==
    /\ c \in authCalls /\ c.fn = "register"
    /\ authCalls' = authCalls \ {c}
    /\ isLoading' = FALSE
    /\ UNCHANGED <<token, user, isAuthenticated, authError, logins, appVars>>

\* register: authService.register rejected
RegisterRejected(c, detail) ==
    /\ c \in authCalls /\ c.fn = "register"
    /\ authCalls' = authCalls \ {c}
    /\ authError' = ErrorText(detail, "Registration failed")
    /\ isLoading' = FALSE
    /\ UNCHANGED <<token, user, isAuthenticated, logins, appVars>>

\* what ProtectedRoute renders
ProtectedRoute ==
    IF isLoading THEN "spinner"
    ELSE IF ~isAuthenticated THEN "login"
    ELSE "children"

\* logout(), the Navbar button of the protected layout
logout ==
    /\ ProtectedRoute = "children"
    /\ token' = ""
    /\ user' = Null
    /\ isAuthenticated' = FALSE
    /\ UNCHANGED <<isLoading, authError, authCalls, logins, appVars>>

NextAuth ==
    \/ \E c \in authCalls : CheckResolved(c)
    \/ \E c \in authCalls : CheckRejected(c)
    \/ login
    \/ \E c \in authCalls : LoginTokenStored(c)
    \/ \E c \in authCalls : LoginResolved(c)
    \/ \E c \in authCalls, d \in Details : LoginRejected(c, d)
    \/ register
    \/ \E c \in authCalls : RegisterResolved(c)
    \/ \E c \in authCalls, d \in Details : RegisterRejected(c, d)
    \/ logout

SpecAuth == InitAuth /\ [][NextAuth]_vars

\* ----------------------------------------------------------- properties
CallsOf(i) == {c \in genCalls : c.inst = i}
SavesOf(i) == {c \in saveCalls : c.inst = i}
Instances == 1..(MaxInst + 1)
\* a request as the service reads it: a field that is undefined is not sent
Wire(req) ==
    [req EXCEPT !.previous_message_id =
        IF req.previous_message_id = Undef THEN Null ELSE req.previous_message_id]
IsAbsent(v) == v \in {Null, Undef, ""}

\* C1: at most one of generate, regenerate and save is in flight for a
\* workflow instance in every reachable state.
C1_OneCallInFlight ==
    \A i \in Instances : Cardinality(CallsOf(i)) + Cardinality(SavesOf(i)) <= 1

\* C2: every generation request in flight whose follow-up flag is false
\* carries no previous-message identifier.
C2_NoPreviousWithoutFollowUp ==
    \A g \in genCalls :
        ~g.req.is_follow_up => IsAbsent(g.req.previous_message_id)

\* C3: a regeneration sends the request whose response produced the working
\* draft, field for field.
C3_RegenerateRepeatsRequest ==
    [][\A g \in genCalls' \ genCalls :
          g.kind = "regenerate" => Wire(g.req) = Wire(draftReq)]_vars

\* C4 (as stated): once at step 3, the step of the mounted instance stays 3.
C4_NoBackFromReview ==
    [][(currentStep = 3 /\ page = "generator" /\ page' = "generator" /\ inst' = inst)
          => currentStep' = 3]_vars

\* C4 (amended): from step 3 the step is lowered only by one, to step 2, by a
\* pure navigation that keeps the working draft and dispatches nothing; it
\* never goes from 3 to 1.
C4_BackOneStepFromReview ==
    [][(currentStep = 3 /\ page = "generator" /\ page' = "generator" /\ inst' = inst)
          => /\ currentStep' \in {2, 3}
             /\ currentStep' = 2 =>
                  UNCHANGED <<generatedMessage, genCalls, saveCalls, error>>]_vars

\* the operator went back from the review step: step 2 shows while a working
\* draft exists
C4_Witness ==
    page = "generator" /\ currentStep = 2 /\ generatedMessage # NoDraft

\* C5: every save dispatched after a regeneration replaced the draft targets
\* the identifier of the current draft and none of the replaced identifiers.
C5_SaveTargetsCurrentDraft ==
    [][\A s \in saveCalls' \ saveCalls :
          /\ generatedMessage # NoDraft
          /\ s.target = MessageId(generatedMessage)
          /\ s.target \notin replaced]_vars

\* a save in flight that was dispatched after a replacement
C5_Witness ==
    \E s \in saveCalls :
        s.inst = inst /\ replaced # {} /\ s.target \notin replaced

\* C6: the payload of every save is the content buffer, and for an email draft
\* the subject buffer, as they are at dispatch, sent to the draft's identifier.
C6_SaveSendsBuffers ==
    [][\A s \in saveCalls' \ saveCalls :
          /\ s.payload.content = formValues["content"]
          /\ generatedMessage.message_type = "email"
                => s.payload.subject = formValues["subject"]
          /\ s.target = MessageId(generatedMessage)]_vars

\* a save in flight that carries the operator's edited content, not the
\* generated one
C6_Witness ==
    \E s \in saveCalls :
        /\ s.payload.content \in EditedContents
        /\ s.payload.content # stripMarkdown(GenContent(s.target))
        /\ s.payload.subject \in EditedSubjects

\* C7: when a regeneration replaces the working draft, the content and subject
\* buffers hold the new draft's content (as displayed) and subject.
C7_BuffersFollowRegeneration ==
    [][(page' = "generator" /\ generatedMessage # NoDraft
          /\ generatedMessage' # generatedMessage /\ generatedMessage' # NoDraft)
          => /\ formValues'["content"] \in
                  {generatedMessage'.content, stripMarkdown(generatedMessage'.content)}
             /\ generatedMessage'.message_type = "email"
                  => formValues'["subject"] = generatedMessage'.subject]_vars

\* C8: no generation request in flight has the follow-up flag set and the
\* previous-message identifier absent or empty.
C8_FollowUpHasPrevious ==
    \A g \in genCalls :
        g.req.is_follow_up => ~IsAbsent(g.req.previous_message_id)

\* C9: the previous message a follow-up request in flight names belongs to the
\* request's client (a follow-up request that names none is C8's case).
C9_PreviousBelongsToClient ==
    \A g \in genCalls :
        (g.req.is_follow_up /\ g.req.previous_message_id \in PrevMessages)
            => MessageClient(g.req.previous_message_id) = g.req.client_id

\* C10: a generation response of a discarded instance changes neither the
\* working draft, nor the step, nor the form values of the mounted instance.
C10_StaleResponseIgnored ==
    [][(page = "generator" /\ \E c \in genCalls \ genCalls' : c.inst # inst)
          => UNCHANGED <<generatedMessage, currentStep, formValues>>]_vars

\* the response of a discarded instance arrived while the new instance was
\* reviewing its own draft
C10_Witness ==
    page = "generator" /\ inst > 1 /\ lateGen = 3 /\ generatedMessage # NoDraft

\* C11: the completion of a save or generation call whose instance is no
\* longer mounted changes neither the route nor any state of the screen shown.
C11_LateCompletionNotApplied ==
    [][/\ \A c \in saveCalls \ saveCalls' :
            ~IsLive(c) => UNCHANGED <<page, detailId, currentStep,
                                      generatedMessage, error, formValues>>
       /\ \A c \in genCalls \ genCalls' :
            ~IsLive(c) => UNCHANGED <<page, detailId, currentStep,
                                      generatedMessage, error, formValues>>]_vars

\* a generation call failed in this step: it left the calls in flight and the
\* service assigned no identifier
FailedGen(c) == c \in genCalls \ genCalls' /\ nextId' = nextId
\* a save call failed in this step: it left the calls in flight and the route
\* did not change
FailedSave(c) == c \in saveCalls \ saveCalls' /\ page' = page
\* the selections of the form are the ones a request carries
SelectionsAsSent(fv, req) ==
    /\ Get(fv, "client_id") = req.client_id
    /\ Get(fv, "product_id") = req.product_id
    /\ Get(fv, "message_type") = req.message_type
    /\ Get(fv, "tone") = req.tone
    /\ Get(fv, "custom_instructions") = req.custom_instructions
    /\ IsTrue(fv, "is_follow_up") = req.is_follow_up
    /\ req.is_follow_up => Get(fv, "previous_message_id") = req.previous_message_id

\* C12: when a generation call dispatched from step 2 has failed, the mounted
\* instance that issued it shows step 2, its working draft is the one it had,
\* and every selection has the value the request was built from.
C12_FailedGenerateKeepsStep2 ==
    [][\A c \in genCalls :
          (FailedGen(c) /\ IsLive(c) /\ c.kind = "generate")
             => /\ currentStep' = 2
                /\ generatedMessage' = generatedMessage
                /\ SelectionsAsSent(formValues', c.req)]_vars

\* C13: the error shown after a failed generation or save call is the detail
\* string of the response when it carries one, and the fixed fallback of that
\* call otherwise.
C13_ErrorIsDetailOrFallback ==
    [][/\ \A c \in genCalls :
            (FailedGen(c) /\ IsLive(c)) =>
                error' = IF lastFailure'.detail # "" THEN lastFailure'.detail ELSE ErrGenerateFallback
       /\ \A c \in saveCalls :
            (FailedSave(c) /\ IsLive(c)) =>
                error' = IF lastFailure'.detail # "" THEN lastFailure'.detail ELSE ErrSaveFallback]_vars

\* a failure with a detail string is shown on the mounted page
C13_Witness ==
    page = "generator" /\ lastFailure.detail = "rate limited" /\ error = "rate limited"

C16_Step2OnlyWithExistingEntities ==
    [][(page = "generator" /\ page' = "generator" /\ inst' = inst
          /\ currentStep = 1 /\ currentStep' = 2)
          => /\ EntityExists(clients, Get(formValues, "client_id"))
             /\ EntityExists(products, Get(formValues, "product_id"))]_vars

\* either identifier field of the entity equals x
Matches(e, x) == e._id = x \/ e.id = x
\* the catalog is loaded and holds an entity that x identifies
ResolvesIn(catalog, x) == catalog.loaded /\ \E e \in catalog.data : Matches(e, x)

\* C17: every generation call is dispatched while its client and product
\* identifiers resolve in the loaded catalogs as they are at dispatch; the
\* not-found error is set without a call, and only when one does not resolve.
C17_DispatchOnlyWithExistingEntities ==
    [][/\ \A g \in genCalls' \ genCalls :
            /\ ResolvesIn(clients, g.req.client_id)
            /\ ResolvesIn(products, g.req.product_id)
       /\ (error' = ErrNotFound /\ error # ErrNotFound) =>
            /\ genCalls' = genCalls
            /\ \/ ~EntityExists(clients, Get(formValues, "client_id"))
               \/ ~EntityExists(products, Get(formValues, "product_id"))]_vars

\* a catalog refresh removed the client the draft was generated for, and the
\* regeneration was rejected without a call
C17_Witness ==
    /\ page = "generator" /\ currentStep = 3 /\ generatedMessage # NoDraft
    /\ clients.loaded /\ ~ResolvesIn(clients, Get(formValues, "client_id"))
    /\ error = ErrNotFound /\ genCalls = {}

\* some entity of the array has x in one of its identifier fields
SomeMatches(list, x) == \E i \in DOMAIN list : Matches(list[i], x)
AllLookups == {"filter", "row", "dash", "exists", "keys", "keysRev"}

\* C18: for every catalog and every identifier string x, the existence check
\* made before a generation succeeds exactly when some entity of the catalog
\* has _id = x or id = x.
C18_CheckMatchesEitherField ==
    ("exists" \in lookup.done /\ lookup.key \in IdStrings)
        => (lookup.exists <=> SomeMatches(lookup.list, lookup.key))

\* C19: on the message list the lookup of the search filter and the lookup of
\* the row find the same entity for a message, and they find one whenever an
\* identifier field of some entity equals the message's identifier.
C19_FilterAndRowLookupsAgree ==
    ({"filter", "row"} \subseteq lookup.done)
        => /\ lookup.filterHit = lookup.rowHit
           /\ SomeMatches(lookup.list, lookup.key) => lookup.rowHit # NoEntity

\* every entity of the array carries the same value in both identifier fields
Uniform(list) == \A i \in DOMAIN list : list[i]._id = list[i].id

\* C20: an entity with the same value in both identifier fields resolves to
\* that value in either resolution order, and in a catalog of such entities
\* every lookup gives the answer of a lookup by id alone and of a lookup by
\* _id alone.
C20_EqualFieldsOrderIndependent ==
    /\ "keys" \in lookup.done =>
          \A i \in DOMAIN lookup.list :
              lookup.list[i]._id = lookup.list[i].id
                  => lookup.keys[i] = lookup.list[i].id
    /\ "keysRev" \in lookup.done =>
          \A i \in DOMAIN lookup.list :
              lookup.list[i]._id = lookup.list[i].id
                  => lookup.keysRev[i] = lookup.list[i]._id
    /\ ("dash" \in lookup.done /\ Uniform(lookup.list)) =>
          /\ lookup.dashHit =
                FindFirst(lookup.list, {i \in DOMAIN lookup.list :
                                          lookup.list[i].id = toString(lookup.key)})
          /\ lookup.dashHit =
                FindFirst(lookup.list, {i \in DOMAIN lookup.list :
                                          lookup.list[i]._id = toString(lookup.key)})
    /\ (lookup.done = AllLookups /\ Uniform(lookup.list)
          /\ lookup.key \in IdStrings) =>
          /\ lookup.rowHit = lookup.dashHit
          /\ lookup.filterHit = lookup.rowHit
          /\ lookup.exists <=> lookup.rowHit # NoEntity

\* every lookup was made in a catalog of two entities with equal fields, and
\* found the second one
C20_Witness ==
    /\ lookup.done = AllLookups
    /\ Len(lookup.list) = 2 /\ Uniform(lookup.list)
    /\ lookup.rowHit = lookup.list[2] /\ lookup.list[1] # lookup.list[2]
    /\ lookup.keys[2] = lookup.key /\ lookup.keysRev[2] = lookup.key

\* C21: every step sends at most one call to the service, and a step in which
\* a call ends (with a response or a failure) sends none: a call is sent by an
\* operator action only.
C21_OneCallPerActionNoRetry ==
    [][/\ Cardinality(genCalls' \ genCalls) + Cardinality(saveCalls' \ saveCalls) <= 1
       /\ (genCalls \ genCalls' # {} \/ saveCalls \ saveCalls' # {}) =>
            (genCalls' \subseteq genCalls /\ saveCalls' \subseteq saveCalls)]_vars

\* a call failed, its error is shown, and no call is in flight
C21_Witness ==
    /\ page = "generator" /\ lastFailure.call # "none" /\ error # Null
    /\ genCalls = {} /\ saveCalls = {}

\* C22: when a save of the mounted instance succeeds, the detail route of the
\* working draft's identifier is shown, and while the generator page is not
\* shown no call is dispatched.
C22_SaveSuccessShowsSavedDraft ==
    [][/\ \A c \in saveCalls \ saveCalls' :
            (IsLive(c) /\ page' = "detail") =>
                detailId' = MessageId(generatedMessage)
       /\ page # "generator" =>
            (genCalls' \subseteq genCalls /\ saveCalls' \subseteq saveCalls)]_vars

\* the values the operator enters at steps 1 and 2
SelectionFields ==
    {"client_id", "product_id", "message_type", "tone", "custom_instructions",
     "is_follow_up", "previous_message_id"}
SameSelections(fv1, fv2) ==
    \A n \in SelectionFields :
        /\ Has(fv1, n) <=> Has(fv2, n)
        /\ Has(fv1, n) => fv1[n] = fv2[n]

\* C23: going back from step 2 to step 1, and advancing from step 1 to step 2
\* again, leaves every entered value as it was.
C23_BackKeepsSelections ==
    [][(page = "generator" /\ page' = "generator" /\ inst' = inst
          /\ <<currentStep, currentStep'>> \in {<<2, 1>>, <<1, 2>>}
          /\ Has(formValues, "tone"))
          => SameSelections(formValues, formValues')]_vars

\* step 1 is shown again with the step-2 values, a follow-up target among
\* them, still stored
C23_Witness ==
    /\ page = "generator" /\ currentStep = 1
    /\ Get(formValues, "message_type") = "email"
    /\ Get(formValues, "tone") = "professional"
    /\ IsTrue(formValues, "is_follow_up")
    /\ Get(formValues, "previous_message_id") \in PrevMessages

\* C24: a save dispatched for a linkedin draft carries no subject.
C24_SubjectOnlyForEmail ==
    [][\A s \in saveCalls' \ saveCalls :
          generatedMessage.message_type # "email" => IsAbsent(s.payload.subject)]_vars

\* C25: when a response makes step 3 show its draft, the content buffer is the
\* returned content and, for an email draft, the subject buffer is the returned
\* subject; a save whose content the operator did not type carries the
\* generated content.
C25_BuffersEqualReturnedDraft ==
    [][/\ (page = "generator" /\ page' = "generator" /\ inst' = inst
            /\ generatedMessage' # generatedMessage /\ currentStep' = 3) =>
              /\ formValues'["content"] = generatedMessage'.content
              /\ generatedMessage'.message_type = "email" =>
                    formValues'["subject"] = generatedMessage'.subject
       /\ \A s \in saveCalls' \ saveCalls :
              s.payload.content \notin EditedContents =>
                  s.payload.content = generatedMessage.content]_vars

\* C26: for every client of the catalog, the client_id of the client-detail
\* page's Generate Message link is the value under which the generator lists
\* the client, and the generator's existence check accepts it.
C26_LinkIdIsListedAndAccepted ==
    "links" \in lookup.done =>
        \A i \in DOMAIN lookup.list :
            /\ lookup.links[i] = ResolveId(lookup.list[i])
            /\ EntityExists(AsCatalog(lookup.list), lookup.links[i])

\* C27: the step is 1, 2 or 3; at step 3 a working draft exists; every save
\* call was dispatched for a working draft that exists.
C27_Step3HasDraft ==
    /\ currentStep \in {1, 2, 3}
    /\ currentStep = 3 => generatedMessage # NoDraft
    /\ \A s \in saveCalls : s.target # 0

\* step 3 with the save of the shown draft in flight
C27_Witness ==
    /\ page = "generator" /\ currentStep = 3
    /\ \E s \in saveCalls : s.inst = inst /\ s.target = MessageId(generatedMessage)

\* C28: an instance has at most one generation call in flight, whatever the
\* operator does while it is in flight, and the working draft changes only
\* to the response of the instance's one call in flight.
C28_OneGenerationInFlight ==
    [][/\ \A i \in Instances : Cardinality({c \in genCalls' : c.inst = i}) <= 1
       /\ (page = "generator" /\ page' = "generator" /\ inst' = inst
            /\ generatedMessage' # generatedMessage) =>
              \E c \in genCalls \ genCalls' :
                  /\ CallsOf(inst) = {c}
                  /\ draftReq' = c.req
                  /\ MessageId(generatedMessage') = nextId
                  /\ generatedMessage'.message_type = c.req.message_type]_vars

\* a regeneration is in flight while the operator has gone back to step 1 or 2
\* with the earlier draft still the working draft
C28_Witness ==
    /\ page = "generator" /\ currentStep \in {1, 2}
    /\ generatedMessage # NoDraft
    /\ \E c \in CallsOf(inst) : c.kind = "regenerate"

\* C29: a page opened through the Create Follow-up link starts with the
\* follow-up flag set and the linked message selected, and every generation
\* request it dispatches carries the linked message as previous message.
C29_FollowUpLinkPreselects ==
    [][/\ (followUp' # followUp /\ followUp'.follow_up = "true") =>
              /\ IsTrue(formValues', "is_follow_up")
              /\ Get(formValues', "previous_message_id") = followUp'.previous_message
       /\ \A g \in genCalls' \ genCalls :
              followUp.follow_up = "true" =>
                  g.req.previous_message_id = followUp.previous_message]_vars

\* C30: in every state of the provider, isAuthenticated = true implies that
\* local storage holds a token.
C30_AuthenticatedHasToken ==
    isAuthenticated => token # ""

====
